---- MODULE Spec2Model ----
(***************************************************************************)
(* Model of the "Price is Right" notebook: the price_is_right scorer class *)
(* and the four overprediction_penalty_* loss functions that read the      *)
(* module-level global `penalty`.                                          *)
(*                                                                         *)
(* Prices and predictions are drawn from small integer ranges.  Python     *)
(* floats are modelled as exact rationals in lowest terms, extended with   *)
(* nan, inf and -inf, which is what numpy/pandas division produces for a   *)
(* zero divisor.                                                           *)
(***************************************************************************)
EXTENDS Integers, Sequences, FiniteSets, TLC

\* ------------------------------------------------------------------ bounds
MaxLen     == 2      \* longest truth / prediction sequence
MaxTruth   == 2      \* truths range over 0..MaxTruth
MaxNeg     == 1      \* predictions range over -MaxNeg..MaxPred
MaxPred    == 3
MaxCalls   == 2      \* scoring calls counted on one binding of truths/preds
MaxRebinds == 1      \* attribute rebinds of one scorer object

TruthVals == 0..MaxTruth
PredVals  == (-MaxNeg)..MaxPred
SeqsUpTo(S, n) == UNION {[1..k -> S] : k \in 0..n}
TruthSeqs == SeqsUpTo(TruthVals, MaxLen)
PredSeqs  == SeqsUpTo(PredVals, MaxLen)

\* ------------------------------------------------------- float arithmetic
Min(a, b) == IF a <= b THEN a ELSE b
Abs(x) == IF x < 0 THEN -x ELSE x

RECURSIVE GCD(_, _)
GCD(a, b) == IF b = 0 THEN a ELSE GCD(b, a % b)

\* the float n/d (d # 0), kept in lowest terms with a positive denominator
Rat(n, d) ==
  LET g == GCD(Abs(n), Abs(d))
      s == IF d < 0 THEN -1 ELSE 1
  IN  [k |-> "fin", n |-> (s * n) \div g, d |-> (s * d) \div g]

NaN    == [k |-> "nan",  n |-> 0, d |-> 1]
PosInf == [k |-> "inf",  n |-> 0, d |-> 1]
NegInf == [k |-> "-inf", n |-> 0, d |-> 1]
FZero  == Rat(0, 1)

\* a / b on floats holding integers: a zero divisor gives nan or +-inf
FDiv(a, b) ==
  IF b # 0 THEN Rat(a, b)
  ELSE IF a = 0 THEN NaN
  ELSE IF a > 0 THEN PosInf ELSE NegInf

FAdd(x, y) ==
  IF x.k = "nan" \/ y.k = "nan" THEN NaN
  ELSE IF x.k = "fin" /\ y.k = "fin" THEN Rat(x.n * y.d + y.n * x.d, x.d * y.d)
  ELSE IF x.k = "fin" THEN y
  ELSE IF y.k = "fin" THEN x
  ELSE IF x.k = y.k THEN x ELSE NaN

\* x <= y on finite floats
FLeq(x, y) == x.n * y.d <= y.n * x.d

\* ---------------------------------------------------------- pandas pieces
\* zip stops at the shorter of its two arguments
zip(a, b) == [i \in 1..Min(Len(a), Len(b)) |-> <<a[i], b[i]>>]

\* pd.DataFrame(rows, columns=['truth', 'pred'])
DataFrame(rows) ==
  [truth           |-> [i \in DOMAIN rows |-> rows[i][1]],
   pred            |-> [i \in DOMAIN rows |-> rows[i][2]],
   winnings        |-> [i \in DOMAIN rows |-> 0],
   winning_percent |-> [i \in DOMAIN rows |-> FZero]]

\* df.loc[mask, col] = values
loc_assign(col, mask, values) ==
  [i \in DOMAIN col |-> IF mask[i] THEN values[i] ELSE col[i]]

\* Series.sum() of an integer-valued column
RECURSIVE SumTo(_, _)
SumTo(col, n) == IF n = 0 THEN 0 ELSE SumTo(col, n - 1) + col[n]
ColSum(col) == SumTo(col, Len(col))

\* Series.sum() of a float column: skipna=True leaves nan entries out
RECURSIVE FSumTo(_, _)
FSumTo(col, n) ==
  IF n = 0 THEN FZero
  ELSE IF col[n].k = "nan" THEN FSumTo(col, n - 1)
  ELSE FAdd(FSumTo(col, n - 1), col[n])
FColSum(col) == FSumTo(col, Len(col))

\* ------------------------------------------------------------------ state
VARIABLES
  truths,           \* self.truths
  preds,            \* self.preds
  hasattrs,         \* self.winnings, .winning_percent, .overpredicted exist
  winnings,         \* self.winnings
  winning_percent,  \* self.winning_percent
  overpredicted,    \* self.overpredicted
  winning_df,       \* the frame built by the latest call on this binding
  stdout,           \* what the latest step printed, <<>> if nothing
  calls,            \* scoring calls made since truths/preds were last bound
  rebinds,          \* attribute rebinds made on this object
  penalty,          \* the module-level global `penalty`
  batch,            \* which definitions cell ran last: 1..4
  ret               \* the loss-function call in flight and what it returned

scorerVars == <<truths, preds, hasattrs, winnings, winning_percent,
                overpredicted, winning_df, stdout, calls, rebinds>>
vars == <<truths, preds, hasattrs, winnings, winning_percent,
          overpredicted, winning_df, stdout, calls, rebinds, penalty, batch,
          ret>>

\* ------------------------------------------------------ price_is_right
\* mutation: the comparison made strict, so an exact prediction wins nothing
win_mask_strict(df) == [i \in DOMAIN df.pred |-> df.pred[i] < df.truth[i]]

\* winning_df['pred'] <= winning_df['truth']
win_mask(df) == [i \in DOMAIN df.pred |-> df.pred[i] <= df.truth[i]]

\* mutation: the truth column assigned in place of the prediction column
winnings_column_truth(df) == loc_assign(df.winnings, win_mask(df), df.truth)

\* mutation: the signed miss pred - truth assigned in place of the prediction
winnings_column_miss(df) ==
  loc_assign(df.winnings, win_mask(df),
             [i \in DOMAIN df.pred |-> df.pred[i] - df.truth[i]])

\* winning_df.loc[pred <= truth, 'winnings'] = winning_df['pred']
winnings_column(df) == loc_assign(df.winnings, win_mask(df), df.pred)

\* mutation: a zero truth guarded, its pair given 0 instead of being divided
percent_column_guarded(df) ==
  loc_assign(df.winning_percent, win_mask(df),
             [i \in DOMAIN df.pred |->
                IF df.truth[i] = 0 THEN FZero
                ELSE FDiv(df.pred[i], df.truth[i])])

\* winning_df.loc[pred <= truth, 'winning_percent'] = pred / truth
percent_column(df) ==
  loc_assign(df.winning_percent, win_mask(df),
             [i \in DOMAIN df.pred |-> FDiv(df.pred[i], df.truth[i])])

\* the frame calculate_winnings has built when it reaches its three sums
score_frame(t, p) ==
  LET df0 == DataFrame(zip(t, p))
      df1 == [df0 EXCEPT !.winnings = winnings_column(df0)]
  IN  [df1 EXCEPT !.winning_percent = percent_column(df1)]

\* mutation: the sum added to the stored total instead of replacing it
self_winnings_accumulated(df) == winnings + ColSum(df.winnings)

self_winnings(df) == ColSum(df.winnings)
self_winning_percent(df) == FColSum(df.winning_percent)
\* winning_df[winning_df['winnings'] == 0].shape[0]
self_overpredicted(df) ==
  Cardinality({i \in DOMAIN df.winnings : df.winnings[i] = 0})

NoFrame == DataFrame(<<>>)

\* the body of calculate_winnings
Score ==
  LET df == score_frame(truths, preds)
  IN  /\ winning_df' = df
      /\ winnings' = self_winnings(df)
      /\ winning_percent' = self_winning_percent(df)
      /\ overpredicted' = self_overpredicted(df)
      /\ hasattrs' = TRUE

calculate_winnings ==
  /\ calls < MaxCalls
  /\ Score
  /\ stdout' = <<>>
  /\ calls' = calls + 1
  /\ UNCHANGED <<truths, preds, rebinds, penalty, batch, ret>>

\* mutation: the stored attributes printed without scoring again
print_results_stale ==
  /\ calls < MaxCalls
  /\ stdout' = <<overpredicted, Len(preds), winning_percent, winnings>>
  /\ calls' = calls + 1
  /\ UNCHANGED <<truths, preds, hasattrs, winnings, winning_percent,
                 overpredicted, winning_df, rebinds, penalty, batch, ret>>

\* print_results scores first, then prints k/n, the percent and the total
print_results ==
  /\ calls < MaxCalls
  /\ Score
  /\ stdout' = <<overpredicted', Len(preds), winning_percent', winnings'>>
  /\ calls' = calls + 1
  /\ UNCHANGED <<truths, preds, rebinds, penalty, batch, ret>>

\* win.truths = t : the attribute is public and rebound by plain assignment
set_truths ==
  /\ rebinds < MaxRebinds
  /\ \E t \in TruthSeqs : truths' = t
  /\ rebinds' = rebinds + 1
  /\ calls' = 0
  /\ winning_df' = NoFrame
  /\ stdout' = <<>>
  /\ UNCHANGED <<preds, hasattrs, winnings, winning_percent, overpredicted,
                 penalty, batch, ret>>

\* win.preds = p
set_preds ==
  /\ rebinds < MaxRebinds
  /\ \E p \in PredSeqs : preds' = p
  /\ rebinds' = rebinds + 1
  /\ calls' = 0
  /\ winning_df' = NoFrame
  /\ stdout' = <<>>
  /\ UNCHANGED <<truths, hasattrs, winnings, winning_percent, overpredicted,
                 penalty, batch, ret>>

\* ----------------------------------------------------------- loss library
PenaltySweep == <<3, 5, 10, 12>>

\* numpy broadcasting of two 1-d arrays: equal lengths, or one of length 1
Broadcastable(a, b) == Len(a) = Len(b) \/ Len(a) = 1 \/ Len(b) = 1
BLen(a, b) == IF Len(a) = 1 THEN Len(b) ELSE Len(a)
At(a, i) == IF Len(a) = 1 THEN a[1] ELSE a[i]

\* err = (truth - pred).astype("float")
err_of(truth, pred) ==
  [i \in 1..BLen(truth, pred) |-> At(truth, i) - At(pred, i)]

\* np.where(cond, x, y) on arrays already broadcast to one length
np_where(cond, x, y) == [i \in DOMAIN cond |-> IF cond[i] THEN x[i] ELSE y[i]]

\* np.mean: nan for an empty array
np_mean(a) == IF Len(a) = 0 THEN NaN ELSE Rat(ColSum(a), Len(a))

\* mutation: the penalty left out of the gradient
objective_grad_at_flat(P, truth, pred) ==
  LET err == err_of(truth, pred)
  IN  np_where([i \in DOMAIN err |-> err[i] < 0],
               [i \in DOMAIN err |-> -2 * err[i]],
               [i \in DOMAIN err |-> -2 * err[i]])

\* mutation: the derivative taken with respect to err, not to the prediction
objective_grad_at_wrt_err(P, truth, pred) ==
  LET err == err_of(truth, pred)
  IN  np_where([i \in DOMAIN err |-> err[i] < 0],
               [i \in DOMAIN err |-> 2 * P * err[i]],
               [i \in DOMAIN err |-> 2 * err[i]])

\* grad and hess as the body computes them when the global penalty holds P
objective_grad_at(P, truth, pred) ==
  LET err == err_of(truth, pred)
  IN  np_where([i \in DOMAIN err |-> err[i] < 0],
               [i \in DOMAIN err |-> -2 * P * err[i]],
               [i \in DOMAIN err |-> -2 * err[i]])

objective_hess_at(P, truth, pred) ==
  LET err == err_of(truth, pred)
  IN  np_where([i \in DOMAIN err |-> err[i] < 0],
               [i \in DOMAIN err |-> 2 * P],
               [i \in DOMAIN err |-> 2])

\* the global is looked up when the function runs
objective_grad(truth, pred) == objective_grad_at(penalty, truth, pred)

\* mutation: err <= 0 takes the penalised branch
objective_hess_inclusive(truth, pred) ==
  LET err == err_of(truth, pred)
  IN  np_where([i \in DOMAIN err |-> err[i] <= 0],
               [i \in DOMAIN err |-> 2 * penalty],
               [i \in DOMAIN err |-> 2])

objective_hess(truth, pred) == objective_hess_at(penalty, truth, pred)

squared_loss(truth, pred) ==
  LET err == err_of(truth, pred)
  IN  np_where([i \in DOMAIN err |-> err[i] < 0],
               [i \in DOMAIN err |-> (err[i] * err[i]) * penalty],
               [i \in DOMAIN err |-> err[i] * err[i]])

\* mutation: abs() forgotten
absolute_loss_signed(truth, pred) ==
  LET err == err_of(truth, pred)
  IN  np_where([i \in DOMAIN err |-> err[i] < 0],
               [i \in DOMAIN err |-> err[i] * penalty],
               [i \in DOMAIN err |-> err[i]])

absolute_loss(truth, pred) ==
  LET err == err_of(truth, pred)
  IN  np_where([i \in DOMAIN err |-> err[i] < 0],
               [i \in DOMAIN err |-> Abs(err[i]) * penalty],
               [i \in DOMAIN err |-> Abs(err[i])])

\* mutation: err <= 0 takes the over-predicted branch
custom_loss_inclusive(truth, pred) ==
  LET err == err_of(truth, pred)
  IN  np_where([i \in DOMAIN err |-> err[i] <= 0],
               [i \in DOMAIN err |-> -At(pred, i)],
               [i \in DOMAIN err |-> 0])

custom_loss(truth, pred) ==
  LET err == err_of(truth, pred)
  IN  np_where([i \in DOMAIN err |-> err[i] < 0],
               [i \in DOMAIN err |-> -At(pred, i)],
               [i \in DOMAIN err |-> 0])

NoCall ==
  [fn |-> "none", truth |-> <<>>, pred |-> <<>>, P |-> 0, raised |-> FALSE,
   grad |-> <<>>, hess |-> <<>>, name |-> "", value |-> FZero,
   flag |-> FALSE]

Raised(f, truth, pred) ==
  [NoCall EXCEPT !.fn = f, !.truth = truth, !.pred = pred, !.P = penalty,
                 !.raised = TRUE]

ObjectiveReturn(f, truth, pred, grad, hess) ==
  [NoCall EXCEPT !.fn = f, !.truth = truth, !.pred = pred, !.P = penalty,
                 !.grad = grad, !.hess = hess]

EvalReturn(f, truth, pred, name, value, flag) ==
  [NoCall EXCEPT !.fn = f, !.truth = truth, !.pred = pred, !.P = penalty,
                 !.name = name, !.value = value, !.flag = flag]

overprediction_penalty_objective ==
  /\ ret.fn = "none"
  /\ \E truth \in TruthSeqs, pred \in PredSeqs :
       ret' = IF ~Broadcastable(truth, pred)
              THEN Raised("objective", truth, pred)
              ELSE ObjectiveReturn("objective", truth, pred,
                                   objective_grad(truth, pred),
                                   objective_hess(truth, pred))
  /\ UNCHANGED <<penalty, batch, scorerVars>>

overprediction_penalty_squared ==
  /\ ret.fn = "none"
  /\ \E truth \in TruthSeqs, pred \in PredSeqs :
       ret' = IF ~Broadcastable(truth, pred)
              THEN Raised("squared", truth, pred)
              ELSE EvalReturn("squared", truth, pred,
                              "overprediction_squared_penalty",
                              np_mean(squared_loss(truth, pred)), FALSE)
  /\ UNCHANGED <<penalty, batch, scorerVars>>

\* mutation: the absolute eval given a metric name of its own
overprediction_penalty_absolute_renamed ==
  /\ ret.fn = "none"
  /\ \E truth \in TruthSeqs, pred \in PredSeqs :
       ret' = IF ~Broadcastable(truth, pred)
              THEN Raised("absolute", truth, pred)
              ELSE EvalReturn("absolute", truth, pred,
                              "overprediction_absolute_penalty",
                              np_mean(absolute_loss(truth, pred)), FALSE)
  /\ UNCHANGED <<penalty, batch, scorerVars>>

overprediction_penalty_absolute ==
  /\ ret.fn = "none"
  /\ \E truth \in TruthSeqs, pred \in PredSeqs :
       ret' = IF ~Broadcastable(truth, pred)
              THEN Raised("absolute", truth, pred)
              ELSE EvalReturn("absolute", truth, pred,
                              "overprediction_squared_penalty",
                              np_mean(absolute_loss(truth, pred)), FALSE)
  /\ UNCHANGED <<penalty, batch, scorerVars>>

overprediction_penalty_custom ==
  /\ ret.fn = "none"
  /\ \E truth \in TruthSeqs, pred \in PredSeqs :
       ret' = IF ~Broadcastable(truth, pred)
              THEN Raised("custom", truth, pred)
              ELSE EvalReturn("custom", truth, pred, "custom_penalty",
                              np_mean(custom_loss(truth, pred)), FALSE)
  /\ UNCHANGED <<penalty, batch, scorerVars>>

\* the caller takes the returned value; the next call can start
Return ==
  /\ ret.fn # "none"
  /\ ret' = NoCall
  /\ UNCHANGED <<penalty, batch, scorerVars>>

\* mutation: the next definitions cell runs while a call is still in flight
rebind_penalty_midcall ==
  /\ batch < Len(PenaltySweep)
  /\ batch' = batch + 1
  /\ penalty' = PenaltySweep[batch + 1]
  /\ UNCHANGED <<ret, scorerVars>>

\* the next definitions cell runs: penalty = 5, then 10, then 12
rebind_penalty ==
  /\ ret.fn = "none"
  /\ batch < Len(PenaltySweep)
  /\ batch' = batch + 1
  /\ penalty' = PenaltySweep[batch + 1]
  /\ UNCHANGED <<ret, scorerVars>>

\* --------------------------------------------------------- specifications
ScorerInit ==
  /\ truths \in TruthSeqs
  /\ preds \in PredSeqs
  /\ hasattrs = FALSE
  /\ winnings = 0
  /\ winning_percent = FZero
  /\ overpredicted = 0
  /\ winning_df = NoFrame
  /\ stdout = <<>>
  /\ calls = 0
  /\ rebinds = 0

LossInit ==
  /\ batch = 1
  /\ penalty = PenaltySweep[batch]
  /\ ret = NoCall

\* the scorer object: constructed on any truths and preds, then used
Init == ScorerInit /\ LossInit

Next ==
  \/ calculate_winnings
  \/ print_results
  \/ set_truths
  \/ set_preds

Spec == Init /\ [][Next]_vars

\* the loss library: no scorer has been handed any data
LossSpecInit ==
  /\ ScorerInit
  /\ truths = <<>>
  /\ preds = <<>>
  /\ LossInit

LossNext ==
  \/ overprediction_penalty_objective
  \/ overprediction_penalty_squared
  \/ overprediction_penalty_absolute
  \/ overprediction_penalty_custom
  \/ Return
  \/ rebind_penalty

LossSpec == LossSpecInit /\ [][LossNext]_vars

\* ------------------------------------------------------------ properties
EvalFns == {"squared", "absolute", "custom"}

\* the scorer has scored the truths and preds it holds now
Scored == calls > 0
Aligned == Len(truths) = Len(preds)

\* C1: on index-aligned pairs with every truth > 0, total winnings is the
\* sum of (prediction if prediction <= truth, else 0) and normalized
\* winnings is the sum of (prediction/truth if prediction <= truth, else 0);
\* a prediction equal to its truth contributes the full prediction.
C1_WinningsAreSumOfNonOverPredictions ==
  (Scored /\ Aligned /\ \A i \in DOMAIN truths : truths[i] > 0) =>
    LET n == Len(truths)
        won(k) == preds[k] <= truths[k]
        W[k \in 0..n] ==
          IF k = 0 THEN 0 ELSE W[k - 1] + (IF won(k) THEN preds[k] ELSE 0)
        \* the common denominator of the fractions prediction/truth
        D[k \in 0..n] == IF k = 0 THEN 1 ELSE D[k - 1] * truths[k]
        N[k \in 0..n] ==
          IF k = 0 THEN 0
          ELSE N[k - 1] + (IF won(k) THEN preds[k] * (D[n] \div truths[k])
                                     ELSE 0)
    IN  /\ winnings = W[n]
        /\ winning_percent.k = "fin"
        /\ winning_percent.n * D[n] = N[n] * winning_percent.d

\* a scored pair of pairs: one over-predicted, one predicting 1 for a truth
\* of 2, so that the normalized winnings are one half
C1_Witness ==
  /\ Scored /\ Aligned /\ Len(truths) >= 2
  /\ \A i \in DOMAIN truths : truths[i] > 0
  /\ \E i \in DOMAIN preds : preds[i] > truths[i]
  /\ \E i \in DOMAIN preds : preds[i] = 1 /\ truths[i] = 2
  /\ winnings = 1
  /\ winning_percent = [k |-> "fin", n |-> 1, d |-> 2]

\* C2: the over-prediction count is exactly the number of pairs whose
\* prediction is strictly greater than its truth; a pair with
\* prediction <= truth, a prediction of 0 included, is not counted.
C2_OverpredictedCountsStrictlyGreater ==
  (Scored /\ Aligned) =>
    overpredicted = Cardinality({i \in DOMAIN preds : preds[i] > truths[i]})

\* C3: a length mismatch between truths and predictions fails fast: neither
\* the scorer nor a loss function produces a result from sequences of
\* different lengths.
C3_LengthMismatchFailsFast ==
  /\ Scored => Aligned
  /\ (ret.fn # "none" /\ Len(ret.truth) # Len(ret.pred)) => ret.raised

\* C4: every scalar eval variant favours under-prediction: for a truth t,
\* d > 0 and any swept penalty, the loss of predicting t + d is not lower
\* than the loss of predicting t - d.
C4_EvalsFavourUnderPrediction ==
  (/\ ret.fn \in EvalFns /\ ~ret.raised
   /\ Len(ret.truth) = 1 /\ Len(ret.pred) = 1
   /\ ret.pred[1] > ret.truth[1]
   /\ 2 * ret.truth[1] - ret.pred[1] \in PredVals) =>
    LET t == ret.truth
        under == <<2 * ret.truth[1] - ret.pred[1]>>
        lossUnder ==
          IF ret.fn = "squared" THEN np_mean(squared_loss(t, under))
          ELSE IF ret.fn = "absolute" THEN np_mean(absolute_loss(t, under))
          ELSE np_mean(custom_loss(t, under))
    IN  FLeq(lossUnder, ret.value)

\* C5: with err = truth - prediction, the objective returns gradient
\* -2*P*err and curvature 2*P where err < 0, and gradient -2*err and
\* curvature 2 where err >= 0 (err = 0 included), whatever P is there.
C5_ObjectiveGradientAndCurvature ==
  (ret.fn = "objective" /\ Len(ret.truth) = Len(ret.pred)) =>
    /\ ~ret.raised
    /\ Len(ret.grad) = Len(ret.truth)
    /\ Len(ret.hess) = Len(ret.truth)
    /\ \A i \in DOMAIN ret.truth :
         LET err == ret.truth[i] - ret.pred[i]
         IN  IF err < 0
             THEN ret.grad[i] = -2 * penalty * err /\ ret.hess[i] = 2 * penalty
             ELSE ret.grad[i] = -2 * err /\ ret.hess[i] = 2

\* an objective call under a rebound penalty that meets an over-prediction
\* and an exact prediction
C5_Witness ==
  /\ ret.fn = "objective" /\ ~ret.raised /\ penalty = 12
  /\ Len(ret.truth) = Len(ret.pred)
  /\ \E i \in DOMAIN ret.truth : ret.truth[i] < ret.pred[i] /\ ret.grad[i] = 24
  /\ \E i \in DOMAIN ret.truth : ret.truth[i] = ret.pred[i] /\ ret.hess[i] = 2

\* C6: on a non-empty pair sequence the squared eval returns the mean of
\* (P*err^2 if err < 0 else err^2) and the absolute eval the mean of
\* (P*|err| if err < 0 else |err|), each with a metric name and the
\* higher-is-better flag false.
C6_SquaredAndAbsoluteAreMeans ==
  (/\ ret.fn \in {"squared", "absolute"}
   /\ Len(ret.truth) = Len(ret.pred) /\ Len(ret.truth) > 0) =>
    LET n == Len(ret.truth)
        e(k) == ret.truth[k] - ret.pred[k]
        mag(k) == IF ret.fn = "squared" THEN e(k) * e(k)
                  ELSE IF e(k) < 0 THEN -e(k) ELSE e(k)
        S[k \in 0..n] ==
          IF k = 0 THEN 0
          ELSE S[k - 1] + (IF e(k) < 0 THEN penalty * mag(k) ELSE mag(k))
    IN  /\ ~ret.raised
        /\ ret.value.k = "fin"
        /\ ret.value.n * n = S[n] * ret.value.d
        /\ ret.name # ""
        /\ ret.flag = FALSE

\* a squared or absolute eval of two pairs, one over- and one
\* under-predicted, whose mean is not a whole number
C6_Witness ==
  /\ ret.fn \in {"squared", "absolute"} /\ ~ret.raised /\ penalty = 5
  /\ Len(ret.truth) = 2 /\ Len(ret.pred) = 2
  /\ \E i \in DOMAIN ret.truth : ret.truth[i] < ret.pred[i]
  /\ \E i \in DOMAIN ret.truth : ret.truth[i] > ret.pred[i]
  /\ ret.value.d = 2

\* C7: on a non-empty pair sequence the custom eval returns the mean of
\* (-prediction if prediction > truth else 0) with flag false, whatever
\* the penalty is.
C7_CustomIsMeanOfNegatedOverPredictions ==
  (/\ ret.fn = "custom"
   /\ Len(ret.truth) = Len(ret.pred) /\ Len(ret.truth) > 0) =>
    LET n == Len(ret.truth)
        S[k \in 0..n] ==
          IF k = 0 THEN 0
          ELSE S[k - 1] + (IF ret.pred[k] > ret.truth[k] THEN -ret.pred[k]
                                                          ELSE 0)
    IN  /\ ~ret.raised
        /\ ret.value.k = "fin"
        /\ ret.value.n * n = S[n] * ret.value.d
        /\ ret.flag = FALSE

\* a custom eval of one over-predicted pair returns minus the prediction,
\* under a penalty other than the first
C7_Witness ==
  /\ ret.fn = "custom" /\ ~ret.raised /\ penalty = 10
  /\ Len(ret.truth) = 1 /\ Len(ret.pred) = 1
  /\ ret.pred[1] > ret.truth[1]
  /\ ret.value = [k |-> "fin", n |-> -ret.pred[1], d |-> 1]

\* C8 as stated: every per-pair winnings contribution is >= 0, and so is
\* the total, for every pair sequence, negative predictions included.
C8_WinningsNeverNegative ==
  Scored =>
    /\ \A i \in DOMAIN winning_df.winnings : winning_df.winnings[i] >= 0
    /\ winnings >= 0

\* C8 amended: a pair whose prediction is >= 0 contributes >= 0, and the
\* total is >= 0 when every prediction is >= 0.
C8_WinningsNonNegativeForNonNegativePredictions ==
  Scored =>
    /\ \A i \in DOMAIN winning_df.winnings :
         preds[i] >= 0 => winning_df.winnings[i] >= 0
    /\ (\A i \in DOMAIN preds : preds[i] >= 0) => winnings >= 0

\* two scored pairs with predictions >= 0: one wins, one is over-predicted
C8_Witness ==
  /\ Scored /\ Aligned /\ Len(preds) >= 2
  /\ \A i \in DOMAIN preds : preds[i] >= 0
  /\ \E i \in DOMAIN preds : preds[i] > truths[i]
  /\ \E i \in DOMAIN preds : winning_df.winnings[i] > 0
  /\ winnings > 0

\* C9: a scoring call leaves truths and preds as they are, and a call made
\* on truths and preds that were already scored stores the same winnings,
\* normalized winnings and over-prediction count again.
C9_ScoringIsIdempotent ==
  [][calls' > calls =>
       /\ truths' = truths
       /\ preds' = preds
       /\ Scored => /\ winnings' = winnings
                    /\ winning_percent' = winning_percent
                    /\ overpredicted' = overpredicted]_vars

\* the same non-empty pairs scored twice, with something won
C9_Witness ==
  /\ calls = 2 /\ hasattrs /\ Aligned /\ Len(preds) >= 1
  /\ winnings > 0
  /\ stdout # <<>>

\* C10: moving one under-prediction closer to its truth without crossing
\* it, all other pairs fixed, does not decrease total winnings.
C10_WinningsMonotoneTowardsTruth ==
  Scored =>
    \A i \in DOMAIN preds : \A q \in PredVals :
      (i \in DOMAIN truths /\ preds[i] <= q /\ q <= truths[i]) =>
        self_winnings(score_frame(truths, [preds EXCEPT ![i] = q])) >= winnings

\* a scored under-prediction that has room to move up to its truth
C10_Witness ==
  /\ Scored /\ Aligned /\ Len(preds) >= 2
  /\ \E i \in DOMAIN preds : preds[i] >= 0 /\ preds[i] < truths[i]
  /\ \E i \in DOMAIN preds : preds[i] > truths[i]

\* C11: for a fixed err < 0 the gradient magnitude and the curvature the
\* objective returns are strictly greater under a greater swept penalty
\* (12 against 3, and any P1 < P2 of the sweep); for err >= 0 they are the
\* same under every penalty.
C11_PenaltyRaisesCostOfOverPrediction ==
  (ret.fn = "objective" /\ ~ret.raised /\ Len(ret.truth) = Len(ret.pred)) =>
    \A i \in DOMAIN ret.truth : \A b \in DOMAIN PenaltySweep :
      LET P1 == PenaltySweep[b]
          t == <<ret.truth[i]>>
          p == <<ret.pred[i]>>
          g1 == objective_grad_at(P1, t, p)[1]
          h1 == objective_hess_at(P1, t, p)[1]
      IN  IF ret.truth[i] - ret.pred[i] < 0
          THEN /\ P1 < penalty => Abs(g1) < Abs(ret.grad[i]) /\ h1 < ret.hess[i]
               /\ P1 > penalty => Abs(g1) > Abs(ret.grad[i]) /\ h1 > ret.hess[i]
          ELSE g1 = ret.grad[i] /\ h1 = ret.hess[i]

\* the objective called in the last batch on an over-prediction by 2 and an
\* under-prediction: gradient 48 and curvature 24 there, 12 and 6 in batch 1
C11_Witness ==
  /\ ret.fn = "objective" /\ ~ret.raised /\ batch = 4 /\ penalty = 12
  /\ Len(ret.truth) = 2 /\ Len(ret.pred) = 2
  /\ \E i \in DOMAIN ret.truth :
       /\ ret.truth[i] - ret.pred[i] = -2
       /\ ret.grad[i] = 48 /\ ret.hess[i] = 24
       /\ objective_grad_at(3, <<ret.truth[i]>>, <<ret.pred[i]>>)[1] = 12
  /\ \E i \in DOMAIN ret.truth : ret.truth[i] > ret.pred[i]

\* C12: the global penalty is the coefficient of the batch that is running,
\* and every call made during a batch reads and computes with that batch's
\* coefficient, never with that of an earlier or later batch.
C12_CallsObserveTheirBatchPenalty ==
  /\ penalty = PenaltySweep[batch]
  /\ ret.fn # "none" =>
       /\ ret.P = PenaltySweep[batch]
       /\ \A b \in DOMAIN PenaltySweep : b # batch => ret.P # PenaltySweep[b]
       /\ (~ret.raised /\ Len(ret.truth) = Len(ret.pred)) =>
            \A i \in DOMAIN ret.truth :
              ret.truth[i] < ret.pred[i] =>
                /\ ret.fn = "objective" => ret.hess[i] = 2 * PenaltySweep[batch]
                /\ (ret.fn = "squared" /\ Len(ret.truth) = 1) =>
                     LET e == ret.truth[i] - ret.pred[i]
                     IN  ret.value = [k |-> "fin",
                                      n |-> PenaltySweep[batch] * e * e,
                                      d |-> 1]

\* the squared eval called in the third batch on one pair over-predicted by
\* 1 returns 10, the third coefficient
C12_Witness ==
  /\ batch = 3 /\ ret.fn = "squared" /\ ~ret.raised /\ ret.P = 10
  /\ Len(ret.truth) = 1 /\ Len(ret.pred) = 1
  /\ ret.pred[1] = ret.truth[1] + 1
  /\ ret.value = [k |-> "fin", n |-> 10, d |-> 1]

\* C13: the objective's gradient and curvature are the first and second
\* derivatives, with respect to the prediction, of the per-pair loss
\* (P*err^2 if err < 0 else err^2): wherever the predictions next to a
\* pair's prediction stay on its branch, the gradient is the central
\* difference of the loss and the curvature its second difference, which
\* for a quadratic are the derivatives themselves.
C13_GradientAndCurvatureAreDerivatives ==
  (ret.fn = "objective" /\ ~ret.raised /\ Len(ret.truth) = Len(ret.pred)) =>
    \A i \in DOMAIN ret.truth :
      LET t == ret.truth[i]
          p == ret.pred[i]
          L(q) == squared_loss(<<t>>, <<q>>)[1]
          sameBranch == (t - p - 1 < 0) = (t - p + 1 < 0)
      IN  sameBranch =>
            /\ 2 * ret.grad[i] = L(p + 1) - L(p - 1)
            /\ ret.hess[i] = L(p + 1) - 2 * L(p) + L(p - 1)

\* an objective call in the second batch on one pair over-predicted by 2
\* and one under-predicted by 2, each with both neighbours on its branch
C13_Witness ==
  /\ ret.fn = "objective" /\ ~ret.raised /\ penalty = 5
  /\ Len(ret.truth) = 2 /\ Len(ret.pred) = 2
  /\ \E i \in DOMAIN ret.truth :
       ret.truth[i] - ret.pred[i] = -2 /\ ret.grad[i] = 20 /\ ret.hess[i] = 10
  /\ \E i \in DOMAIN ret.truth :
       ret.truth[i] - ret.pred[i] = 2 /\ ret.grad[i] = -4 /\ ret.hess[i] = 2

\* C14: calculate_winnings does not guard against a zero truth: the call
\* completes without a validation error, and a pair with truth = 0 and
\* prediction <= truth gets prediction / 0 as its normalized winnings, which
\* is no number (nan for 0/0, -inf for a negative prediction), not a
\* sentinel value.
C14_ZeroTruthIsDividedUnguarded ==
  Scored =>
    /\ hasattrs
    /\ Len(winning_df.truth) = Min(Len(truths), Len(preds))
    /\ \A i \in DOMAIN winning_df.truth :
         (truths[i] = 0 /\ preds[i] <= truths[i]) =>
           /\ winning_df.winning_percent[i].k # "fin"
           /\ winning_df.winning_percent[i] =
                (IF preds[i] = 0 THEN NaN ELSE NegInf)
    /\ (\E i \in DOMAIN winning_df.truth : truths[i] = 0 /\ preds[i] < 0) =>
         winning_percent = NegInf

\* scored pairs with two zero truths, one predicted 0 and one predicted
\* below 0
C14_Witness ==
  /\ Scored /\ Aligned /\ Len(truths) = 2
  /\ \E i \in DOMAIN truths :
       truths[i] = 0 /\ preds[i] = 0 /\ winning_df.winning_percent[i] = NaN
  /\ \E i \in DOMAIN truths :
       truths[i] = 0 /\ preds[i] < 0 /\ winning_df.winning_percent[i] = NegInf
  /\ winning_percent = NegInf

\* C15: what print_results prints is scored from the truths and preds held
\* when it is called, never a result stored before they were rebound; the
\* attributes winnings, winning_percent and overpredicted do not exist on a
\* newly constructed object and exist after the first scoring call.
C15_PrintResultsRecomputes ==
  /\ (calls = 0 /\ rebinds = 0) => ~hasattrs
  /\ Scored => hasattrs
  /\ stdout # <<>> =>
       LET n == Min(Len(truths), Len(preds))
           won(k) == preds[k] <= truths[k]
           W[k \in 0..n] ==
             IF k = 0 THEN 0 ELSE W[k - 1] + (IF won(k) THEN preds[k] ELSE 0)
           D[k \in 0..n] == IF k = 0 THEN 1 ELSE D[k - 1] * truths[k]
           N[k \in 0..n] ==
             IF k = 0 THEN 0
             ELSE N[k - 1] + (IF won(k) THEN preds[k] * (D[n] \div truths[k])
                                        ELSE 0)
       IN  /\ Scored
           /\ winning_df.truth = SubSeq(truths, 1, n)
           /\ winning_df.pred = SubSeq(preds, 1, n)
           /\ stdout = <<overpredicted, Len(preds), winning_percent, winnings>>
           \* the total printed
           /\ stdout[4] = W[n]
           \* the count printed: the rows whose winnings are 0
           /\ stdout[1] =
                Cardinality({k \in 1..n : ~won(k) \/ preds[k] = 0})
           \* the normalized winnings printed, where no truth is 0
           /\ (\A k \in 1..n : truths[k] > 0) =>
                /\ stdout[3].k = "fin"
                /\ stdout[3].n * D[n] = N[n] * stdout[3].d

\* print_results called after an attribute was rebound, on two pairs
C15_Witness ==
  /\ rebinds = 1 /\ calls = 1 /\ stdout # <<>>
  /\ Aligned /\ Len(preds) = 2
  /\ stdout[1] = 1 /\ stdout[4] > 0

\* C16: the metric name an eval returns is a constant, whatever the inputs
\* and the penalty: "overprediction_squared_penalty" from both the squared
\* and the absolute eval, "custom_penalty" from the custom eval, so the name
\* does not tell the squared eval from the absolute one.
C16_MetricNamesAreConstant ==
  (ret.fn \in EvalFns /\ ~ret.raised) =>
    /\ ret.fn = "squared" => ret.name = "overprediction_squared_penalty"
    /\ ret.fn = "absolute" => ret.name = "overprediction_squared_penalty"
    /\ ret.fn = "custom" => ret.name = "custom_penalty"

\* the absolute eval returning the squared eval's name in the last batch,
\* on two pairs
C16_Witness ==
  /\ ret.fn = "absolute" /\ ~ret.raised /\ batch = 4
  /\ Len(ret.truth) = 2 /\ Len(ret.pred) = 2
  /\ ret.truth[1] # ret.pred[1]
  /\ ret.name = "overprediction_squared_penalty"

====
